---- MODULE Spec2Model ----
(***************************************************************************)
(* Model of the diagnostic-log decoder in src/parselog.py: the record      *)
(* framer (Record.__init__ / Record._parse), the corruption recovery of    *)
(* UnusedRecord, the timestamp and timezone state kept on the Record       *)
(* class, the record decoders that touch that state, and the lazy stream   *)
(* decoder LogParser.parse with a consumer that pulls and renders records. *)
(*                                                                         *)
(* Bytes are integers 0..255.  Absolute times are whole seconds since the  *)
(* Unix epoch; a timestamp is <<seconds, ticks>> with ticks in 0..63       *)
(* (1/64 s), or << >> when the record has none.                            *)
(***************************************************************************)
EXTENDS Integers, Sequences, FiniteSets, TLC

VARIABLES
    input,      \* the buffer handed to LogParser.parse, as a sequence of segment names
    param,      \* the byte that the parametrised segments of the input carry
    status,     \* "new" | "running" | "suspended" | "done" | "error": position of
                \* the parse generator ("suspended": stopped in breakpoint())
    src,        \* the byte cursor (bytearray src of LogParser.parse)
    ts_base,    \* Record._ts_base, seconds since the Unix epoch
    tocks,      \* Record._tocks
    tz_offset,  \* Record._tz_offset, seconds
    tz_known,   \* Record._tz_known
    pos,        \* Record._pos
    prev_rec,   \* Record._prev_rec: << >> (None) or <<record>>
    rec,        \* Record._rec: << >> (None) or <<record>>
    out,        \* records yielded to the consumer so far, in order
    err,        \* << >> or <<ParseError>> propagated to the consumer
    shown,      \* << >> or <<index, marker>>: the consumer's latest str(record)
    other       \* a second decode run of the same process: its input, generator
                \* position, cursor, records and error (status "none": no such run)

vars == <<input, param, status, src, ts_base, tocks, tz_offset, tz_known, pos,
          prev_rec, rec, out, err, shown, other>>

----------------------------------------------------------------------------
(* Program constants *)

ERASED_BYTE == 255

SECTOR_USABLE == 4096 - 16

Epoch1999 == 915148800

HEADER_MAGIC == 66

HEADER_LIMIT == 4096 * 10

TZ_UNIT == 900

SET_TIME_HANDLE == 29

----------------------------------------------------------------------------
(* Byte and sequence helpers *)

Take(s, n) == SubSeq(s, 1, IF n < Len(s) THEN n ELSE Len(s))

Drop(s, n) == SubSeq(s, n + 1, Len(s))

\* struct.unpack('<h')
S16(b0, b1) == IF b1 >= 128 THEN b0 + 256 * (b1 - 256) ELSE b0 + 256 * b1

\* A plausible slip: the 16-bit field unpacked as signed ('<h')
U16_signed(b0, b1) == S16(b0, b1)

\* struct.unpack('<H')
U16(b0, b1) == b0 + 256 * b1

U32(b0, b1, b2, b3) == b0 + 256 * b1 + 65536 * b2 + 16777216 * b3

\* Comparisons of a little-endian 32-bit field, bytewise (limit < 65536)
U32NonZero(b0, b1, b2, b3) == b0 # 0 \/ b1 # 0 \/ b2 # 0 \/ b3 # 0

\* A plausible slip: the limit itself accepted
U32Below_incl(b0, b1, b2, b3, limit) == b2 = 0 /\ b3 = 0 /\ U16(b0, b1) <= limit

U32Below(b0, b1, b2, b3, limit) == b2 = 0 /\ b3 = 0 /\ U16(b0, b1) < limit

S32(b0, b1, b2, b3) ==
    IF b3 >= 128 THEN b0 + 256 * b1 + 65536 * b2 + 16777216 * (b3 - 256)
    ELSE U32(b0, b1, b2, b3)

S8(b) == IF b >= 128 THEN b - 256 ELSE b

NoTs == << >>

\* Record._ts_base + dt.timedelta(seconds=Record._tocks / 64)
TsOf(base, t) == <<base + (t \div 64), t % 64>>

\* A plausible slip: the milliseconds rounded instead of truncated
TsText_rounded(ts) ==
    IF ts = NoTs THEN << >> ELSE <<ts[1], (ts[2] * 15625 + 500) \div 1000>>

\* strftime('%Y-%m-%d %H:%M:%S') + '.%03d' % (microsecond / 1000)
TsText(ts) == IF ts = NoTs THEN << >> ELSE <<ts[1], (ts[2] * 15625) \div 1000>>

----------------------------------------------------------------------------
(* Record kind catalog *)

\* A plausible slip: the gaps of the catalog below 51 taken as catalog entries
get_class_nogap(rtype) ==
    CASE rtype = 0 -> "Erased"
      [] rtype = 1 -> "Timestamp"
      [] rtype = 2 -> "Reboot"
      [] rtype = 4 -> "Zap"
      [] rtype = 5 -> "Connect"
      [] rtype = 7 -> "TimeDelta"
      [] rtype = 9 -> "Reconnect"
      [] rtype = 12 -> "Bluetooth"
      [] rtype = 15 -> "AlarmLoad"
      [] rtype = 16 -> "AlarmTrigger"
      [] rtype = 27 -> "Beep"
      [] rtype = 29 -> "Steps"
      [] rtype = 30 -> "Energy"
      [] rtype = 31 -> "Fflags"
      [] rtype = 36 -> "Crash"
      [] rtype = 37 -> "Ota"
      [] rtype = 38 -> "Uflags"
      [] rtype = 39 -> "Hflags"
      [] rtype = 40 -> "Temperature"
      [] rtype = ERASED_BYTE -> "Unused"
      [] rtype \in 2..50 -> "Other"
      [] OTHER -> "Unknown"

\* Record.get_class: the class registered for a type code, else UnknownRecord.
\* Only the kinds decoded in this model are listed; "Other" stands for the
\* remaining catalog entries, which no input of the model reaches.
get_class(rtype) ==
    CASE rtype = 0 -> "Erased"
      [] rtype = 1 -> "Timestamp"
      [] rtype = 2 -> "Reboot"
      [] rtype = 4 -> "Zap"
      [] rtype = 5 -> "Connect"
      [] rtype = 7 -> "TimeDelta"
      [] rtype = 9 -> "Reconnect"
      [] rtype = 12 -> "Bluetooth"
      [] rtype = 15 -> "AlarmLoad"
      [] rtype = 16 -> "AlarmTrigger"
      [] rtype = 27 -> "Beep"
      [] rtype = 29 -> "Steps"
      [] rtype = 30 -> "Energy"
      [] rtype = 31 -> "Fflags"
      [] rtype = 36 -> "Crash"
      [] rtype = 37 -> "Ota"
      [] rtype = 38 -> "Uflags"
      [] rtype = 39 -> "Hflags"
      [] rtype = 40 -> "Temperature"
      [] rtype = ERASED_BYTE -> "Unused"
      [] rtype \in (2..31) \cup {34} \cup (36..50) -> "Other"
      [] OTHER -> "Unknown"

\* self.name as set by Record.__init__ (class name without "Record", or _name)
NameOf(cls, rtype) == IF cls = "Unknown" THEN <<"Unknown", rtype>> ELSE <<cls>>

EmptyV == << >>

\* self.parse() of UnknownRecord returns None
NoneV == <<"None">>

DecodeFail(st) == [ok |-> FALSE, st |-> st, ts |-> NoTs, v |-> EmptyV]

\* A decoder that called breakpoint() before its exception surfaced
Breakpoint == <<"breakpoint">>

DecodeBreak(st) == [ok |-> FALSE, st |-> st, ts |-> NoTs, v |-> Breakpoint]

\* A plausible slip: the legacy threshold one too high
decode_duration_nolegacy(x) ==
    IF x > 63 THEN 500
    ELSE CASE (x \div 16) % 4 = 0 -> 0 + (x % 16) * 10
           [] (x \div 16) % 4 = 1 -> 200 + (x % 16) * 50
           [] (x \div 16) % 4 = 2 -> 1000 + (x % 16) * 100
           [] (x \div 16) % 4 = 3 -> 3000 + (x % 16) * 500

\* decode_duration: a one-byte duration in milliseconds
decode_duration(x) ==
    IF x > 62 THEN 500
    ELSE CASE (x \div 16) % 4 = 0 -> 0 + (x % 16) * 10
           [] (x \div 16) % 4 = 1 -> 200 + (x % 16) * 50
           [] (x \div 16) % 4 = 2 -> 1000 + (x % 16) * 100
           [] (x \div 16) % 4 = 3 -> 3000 + (x % 16) * 500

\* BeepRecord.parse: one byte is a skip code, else count, freq, duration
BeepRecord_parse(data, ts, st) ==
    IF Len(data) = 1
    THEN [ok |-> TRUE, st |-> st, ts |-> ts, v |-> [skip |-> TRUE, code |-> data[1]]]
    ELSE IF Len(data) < 3 THEN DecodeFail(st)
    ELSE [ok |-> TRUE, st |-> st, ts |-> ts,
          v |-> [count |-> data[1],
                 freq |-> ((data[2] \div 10) - 1) * 800 + 200,
                 duration |-> decode_duration(data[3])]]

\* ZapRecord.parse with at least 9 payload bytes (voltages in millivolts)
ZapRecord_fields(d, ver) ==
    [target |-> IF ver <= 0 THEN (d[1] % 16) * 10 ELSE (60 * d[2] + 47) \div 94,
     battv |-> IF ver <= 0 THEN d[2] * 4 + 3180 ELSE 0,
     release |-> d[3] * (IF ver <= 0 THEN 2 ELSE 3),
     exit |-> d[4] * (IF ver <= 0 THEN 2 ELSE 3),
     charged |-> (d[1] \div 16) % 2 = 1,
     skipped |-> (d[1] \div 32) % 2 = 1,
     tchg |-> IF (d[1] \div 16) % 2 = 1 THEN d[5] * 4 ELSE 0,
     trel |-> d[6] * 4,
     t10 |-> d[7] * 4,
     minv |-> d[8] * (IF ver <= 0 THEN 2 ELSE 3),
     maxv |-> d[9] * (IF ver <= 0 THEN 2 ELSE 3)]

\* ZapRecord.parse: one byte is a skip code; 2 to 8 bytes raise inside the
\* try block (struct.error below 6 bytes, an unbound b7 from 6 to 8), whose
\* handler calls breakpoint() before the missing names fail in extract();
\* no byte at all fails in the skip branch.
ZapRecord_parse(data, ts, st) ==
    IF Len(data) = 0 THEN DecodeFail(st)
    ELSE IF Len(data) = 1
    THEN [ok |-> TRUE, st |-> st, ts |-> ts, v |-> [skip |-> TRUE, code |-> data[1]]]
    ELSE IF Len(data) < 9 THEN DecodeBreak(st)
    ELSE [ok |-> TRUE, st |-> st, ts |-> ts, v |-> ZapRecord_fields(data, (data[1] \div 64) % 4)]

\* UnknownRecord.parse
UnknownRecord_parse(data, ts, st) == [ok |-> TRUE, st |-> st, ts |-> ts, v |-> NoneV]

\* TimestampRecord.parse, the offset branch: apply the offset, or only its
\* change, to the time base.
TimestampRecord_tz(st, tz) ==
    IF ~st.tz_known
    THEN [st EXCEPT !.ts_base = st.ts_base + tz, !.tz_offset = tz, !.tz_known = TRUE]
    ELSE [st EXCEPT !.ts_base = st.ts_base + (tz - st.tz_offset), !.tz_offset = tz]

\* A plausible slip: a later offset applied raw instead of as a change
BluetoothRecord_tz_raw(st, tz) ==
    [st EXCEPT !.ts_base = st.ts_base + tz, !.tz_offset = tz, !.tz_known = TRUE]

\* BluetoothRecord.parse, the set-time branch (same transition, base kept)
BluetoothRecord_tz(st, tz) ==
    IF ~st.tz_known
    THEN [st EXCEPT !.ts_base = st.ts_base + tz, !.tz_offset = tz, !.tz_known = TRUE]
    ELSE [st EXCEPT !.ts_base = st.ts_base + (tz - st.tz_offset), !.tz_offset = tz]

\* A plausible slip: the tick counter kept across a time sync
TimestampRecord_parse_noreset(data, ts, st) ==
    IF Len(data) < 4 THEN DecodeFail(st)
    ELSE LET value == U32(data[1], data[2], data[3], data[4])
             st1 == IF Len(data) >= 5 THEN TimestampRecord_tz(st, S8(data[5]) * TZ_UNIT) ELSE st
         IN [ok |-> TRUE,
             st |-> [st1 EXCEPT !.ts_base = value + st1.tz_offset],
             ts |-> <<value + st1.tz_offset, 0>>,
             v |-> [offset |-> << >>]]

TimestampRecord_parse(data, ts, st) ==
    IF Len(data) < 4 THEN DecodeFail(st)
    ELSE LET value == U32(data[1], data[2], data[3], data[4])
             st1 == IF Len(data) >= 5 THEN TimestampRecord_tz(st, S8(data[5]) * TZ_UNIT) ELSE st
             newts == <<value + st1.tz_offset, 0>>
         IN [ok |-> TRUE,
             st |-> [st1 EXCEPT !.tocks = 0, !.ts_base = newts[1]],
             ts |-> newts,
             v |-> [offset |-> << >>]]

\* A plausible slip: the record's own timestamp rewritten to the new time
\* (the assignment left commented out in TimeDeltaRecord.parse)
TimeDeltaRecord_parse_rewrite(data, ts, st) ==
    IF Len(data) < 4 THEN DecodeFail(st)
    ELSE LET delta == S32(data[1], data[2], data[3], data[4])
             st1 == [st EXCEPT !.tocks = st.tocks + delta * 64]
             now == TsOf(st1.ts_base, st1.tocks)
         IN [ok |-> TRUE, st |-> st1, ts |-> now, v |-> [delta |-> delta, now |-> now]]

TimeDeltaRecord_parse(data, ts, st) ==
    IF Len(data) < 4 THEN DecodeFail(st)
    ELSE LET delta == S32(data[1], data[2], data[3], data[4])
             st1 == [st EXCEPT !.tocks = st.tocks + delta * 64]
             now == TsOf(st1.ts_base, st1.tocks)
         IN [ok |-> TRUE, st |-> st1, ts |-> ts, v |-> [delta |-> delta, now |-> now]]

\* A plausible slip: the offset taken from every Bluetooth record of 9
\* bytes, whatever its handle
BluetoothRecord_parse_anyhandle(data, ts, st) ==
    IF Len(data) < 1 THEN DecodeFail(st)
    ELSE LET st1 == IF Len(data) >= 9
                    THEN BluetoothRecord_tz(st, S8(data[9]) * TZ_UNIT)
                    ELSE st
         IN [ok |-> TRUE, st |-> st1, ts |-> ts,
             v |-> [handle |-> data[1], payload |-> Drop(data, 1)]]

BluetoothRecord_parse(data, ts, st) ==
    IF Len(data) < 1 THEN DecodeFail(st)
    ELSE LET st1 == IF data[1] = SET_TIME_HANDLE /\ Len(data) >= 9
                    THEN BluetoothRecord_tz(st, S8(data[9]) * TZ_UNIT)
                    ELSE st
         IN [ok |-> TRUE, st |-> st1, ts |-> ts,
             v |-> [handle |-> data[1], payload |-> Drop(data, 1)]]

StepsRecord_parse(data, ts, st) ==
    LET borrow == st.prev_rec # << >> /\ st.prev_rec[1].type = 30
        ts1 == IF borrow THEN st.prev_rec[1].ts ELSE ts
    IN IF borrow /\ st.prev_rec[1].ts = NoTs THEN DecodeFail(st)
       ELSE IF Len(data) < 3 THEN DecodeFail(st)
       ELSE LET count == U16(data[1], data[2])
                rate == data[3]
            IN IF rate = 255 /\ count = 0 THEN DecodeFail(st)
               ELSE [ok |-> TRUE, st |-> st, ts |-> ts1,
                     v |-> [count |-> count,
                            rate |-> IF rate < 255 THEN <<rate * 2>> ELSE <<"undefined">>]]

EnergyRecord_parse(data, ts, st) ==
    [ok |-> TRUE, st |-> st, ts |-> ts,
     v |-> IF Len(data) = 6
           THEN [mean |-> U16(data[1], data[2]), level |-> U16(data[3], data[4]),
                 maxlev |-> U16(data[5], data[6])]
           ELSE EmptyV]

\* RebootRecord.parse: the reason is derived from the code alone (shutdown,
\* power, or the names of the bits 0..6 that are set); the version needs 3 or
\* 4 bytes, else it is None.
RebootRecord_parse(data, ts, st) ==
    IF Len(data) < 1 THEN DecodeFail(st)
    ELSE [ok |-> TRUE, st |-> st, ts |-> ts,
          v |-> [code |-> data[1],
                 reason |-> IF data[1] = 128 THEN <<"shutdown">>
                            ELSE IF data[1] = 0 THEN <<"power">>
                            ELSE <<"bits", data[1] % 128>>,
                 version |-> IF Len(data) >= 4 THEN <<data[2], data[3], data[4]>>
                             ELSE IF Len(data) >= 3 THEN <<5, data[2], data[3]>>
                             ELSE << >>]]

\* ConnectRecord.parse: the fallback without interval still unpacks 6 bytes
ConnectRecord_parse(data, ts, st) ==
    IF Len(data) < 6 THEN DecodeFail(st)
    ELSE [ok |-> TRUE, st |-> st, ts |-> ts,
          v |-> [mac |-> Take(data, 6),
                 ci |-> IF Len(data) >= 8 THEN <<U16(data[7], data[8])>> ELSE << >>]]

\* round((self._ts + dtime).timestamp() / 60) * 60 in AlarmLoadRecord.parse:
\* the nearest whole minute, ties to the even minute (local time at a whole
\* number of minutes from UTC)
AlarmTime(ts, delta) ==
    LET sec == ts[1] + delta
        rem == (sec % 60) * 64 + ts[2]
    IN 60 * ((sec \div 60)
             + (IF rem > 1920 \/ (rem = 1920 /\ (sec \div 60) % 2 = 1) THEN 1 ELSE 0))

\* AlarmLoadRecord.parse: below 2 bytes the fixed no-value result; else the
\* alarm time is computed from self._ts, which a record without timestamp
\* does not have.
AlarmLoadRecord_parse(data, ts, st) ==
    IF Len(data) < 2
    THEN [ok |-> TRUE, st |-> st, ts |-> ts,
          v |-> [aid |-> <<"none">>, delta |-> 0, alarm_time |-> <<"none">>]]
    ELSE IF ts = NoTs THEN DecodeFail(st)
    ELSE [ok |-> TRUE, st |-> st, ts |-> ts,
          v |-> [aid |-> IF Len(data) >= 4 THEN <<U16(data[3], data[4])>> ELSE <<0>>,
                 delta |-> U16(data[1], data[2]) * 10,
                 alarm_time |-> <<AlarmTime(ts, U16(data[1], data[2]) * 10)>>]]

\* AlarmTriggerRecord.parse: the branch without id still unpacks 6 bytes
AlarmTriggerRecord_parse(data, ts, st) ==
    IF Len(data) < 6 THEN DecodeFail(st)
    ELSE [ok |-> TRUE, st |-> st, ts |-> ts,
          v |-> [aid |-> IF Len(data) >= 8 THEN U16(data[7], data[8]) ELSE 0,
                 ctrl |-> data[1],
                 snooze |-> data[2],
                 pretrigger |-> data[3] >= 128,
                 pre_delay |-> (data[3] % 128) * 2 * 10,
                 duration |-> data[5] * 60,
                 interval |-> data[6] * 5]]

\* FflagsRecord.parse: with a length other than 4 the names flags, amazon and
\* variant are unbound when the result is built
FflagsRecord_parse(data, ts, st) ==
    IF Len(data) # 4 THEN DecodeFail(st)
    ELSE [ok |-> TRUE, st |-> st, ts |-> ts,
          v |-> [flags |-> U32(data[1], data[2], data[3], data[4]),
                 amazon |-> data[1] % 2 = 1,
                 variant |-> (data[1] \div 2) % 128]]

\* UflagsRecord.parse
UflagsRecord_parse(data, ts, st) ==
    IF Len(data) # 4 THEN DecodeFail(st)
    ELSE [ok |-> TRUE, st |-> st, ts |-> ts,
          v |-> [flags |-> U32(data[1], data[2], data[3], data[4]),
                 locked |-> data[1] % 2 = 1]]

\* HflagsRecord.parse
HflagsRecord_parse(data, ts, st) ==
    IF Len(data) # 4 THEN DecodeFail(st)
    ELSE [ok |-> TRUE, st |-> st, ts |-> ts,
          v |-> [flags |-> U32(data[1], data[2], data[3], data[4]),
                 pav3 |-> data[1] % 2 = 1]]

\* CrashRecord.parse: with a length other than 12, extract() finds none of
\* fault_id, pc and error
CrashRecord_parse(data, ts, st) ==
    IF Len(data) # 12 THEN DecodeFail(st)
    ELSE [ok |-> TRUE, st |-> st, ts |-> ts,
          v |-> [fault_id |-> U32(data[1], data[2], data[3], data[4]),
                 pc |-> U32(data[5], data[6], data[7], data[8]),
                 error |-> U32(data[9], data[10], data[11], data[12])]]

\* OtaRecord.CODES
OtaRecord_CODES(code) ==
    CASE code = 192 -> "unlock"
      [] code = 193 -> "lock"
      [] code = 194 -> "fflags"
      [] code = 195 -> "hflags"
      [] code = 196 -> "uflags"
      [] code = 203 -> "blink"
      [] code = 204 -> "crash"
      [] code = 205 -> "reset"
      [] code = 206 -> "wipe"
      [] code = 207 -> "hibernate"
      [] OTHER -> "?"

\* OtaRecord.parse: with a length other than 1, extract() finds neither code
\* nor name
OtaRecord_parse(data, ts, st) ==
    IF Len(data) # 1 THEN DecodeFail(st)
    ELSE [ok |-> TRUE, st |-> st, ts |-> ts,
          v |-> [code |-> data[1], name |-> OtaRecord_CODES(data[1])]]

\* TemperatureRecord.parse: two bytes are quarter degrees ('<h'), one byte is
\* whole degrees ('b'); the value is kept in quarter degrees
TemperatureRecord_parse(data, ts, st) ==
    IF Len(data) < 1 THEN DecodeFail(st)
    ELSE [ok |-> TRUE, st |-> st, ts |-> ts,
          v |-> [degrees |-> IF Len(data) >= 2 THEN S16(data[1], data[2])
                             ELSE 4 * S8(data[1])]]

Record_parse(data, ts, st) == [ok |-> TRUE, st |-> st, ts |-> ts, v |-> EmptyV]

\* self.parse() dispatched on the record's class
parse(cls, data, ts, st) ==
    CASE cls = "Timestamp" -> TimestampRecord_parse(data, ts, st)
      [] cls = "TimeDelta" -> TimeDeltaRecord_parse(data, ts, st)
      [] cls = "Bluetooth" -> BluetoothRecord_parse(data, ts, st)
      [] cls = "Steps" -> StepsRecord_parse(data, ts, st)
      [] cls = "Energy" -> EnergyRecord_parse(data, ts, st)
      [] cls = "Beep" -> BeepRecord_parse(data, ts, st)
      [] cls = "Zap" -> ZapRecord_parse(data, ts, st)
      [] cls = "Reboot" -> RebootRecord_parse(data, ts, st)
      [] cls = "Connect" -> ConnectRecord_parse(data, ts, st)
      [] cls = "AlarmLoad" -> AlarmLoadRecord_parse(data, ts, st)
      [] cls = "AlarmTrigger" -> AlarmTriggerRecord_parse(data, ts, st)
      [] cls = "Fflags" -> FflagsRecord_parse(data, ts, st)
      [] cls = "Uflags" -> UflagsRecord_parse(data, ts, st)
      [] cls = "Hflags" -> HflagsRecord_parse(data, ts, st)
      [] cls = "Crash" -> CrashRecord_parse(data, ts, st)
      [] cls = "Ota" -> OtaRecord_parse(data, ts, st)
      [] cls = "Temperature" -> TemperatureRecord_parse(data, ts, st)
      [] cls = "Unknown" -> UnknownRecord_parse(data, ts, st)
      [] OTHER -> Record_parse(data, ts, st)

----------------------------------------------------------------------------
(* Record framer *)

\* The ParseError raised by Record.__init__ for any exception of _parse
\* (OutOfData included): the record name and the raw bytes consumed so far.
ParseError(name, raw, st) ==
    [ok |-> FALSE, st |-> st, err |-> [name |-> name, raw |-> raw], stopped |-> FALSE]

\* self.length = byte & 0x7f
FrameLength(byte) == byte % 128

\* A plausible slip: the flag bit tested with > instead of &
FrameTimestamped_strict(byte) == byte > 128

\* self.timestamped = bool(byte & 0x80)
FrameTimestamped(byte) == byte >= 128

\* self.fields['name']: self.name, which RebootRecord.parse replaces when the
\* code is the shutdown bit
FieldsName(name, code, data) ==
    IF code = 2 /\ data # << >> /\ data[1] = 128 THEN <<"Shutdown">> ELSE name

\* Record._parse, the end: the decoder's result d becomes the record (fields,
\* rendered timestamp) or the failure.  pos0 is Record._pos at entry.
Record__parse_finish(name, code, raw, byte, data, pos0, d) ==
    IF ~d.ok
    THEN [ok |-> FALSE, st |-> d.st, err |-> [name |-> name, raw |-> raw],
          stopped |-> d.v = Breakpoint]
    ELSE [ok |-> TRUE, st |-> d.st,
          record |-> [type |-> code, name |-> FieldsName(name, code, data),
                      len |-> FrameLength(byte),
                      timestamped |-> FrameTimestamped(byte), data |-> data,
                      raw |-> raw, pos |-> pos0, ts |-> d.ts,
                      tstext |-> TsText(d.ts), v |-> d.v]]

\* Record._parse, the payload: take up to length bytes (a slice, so fewer if
\* the cursor is short), advance Record._pos by len(raw), run the decoder.
Record__parse_data(cls, name, code, raw2, byte, ts, st) ==
    Record__parse_finish(name, code, raw2 \o Take(st.src, FrameLength(byte)), byte,
        Take(st.src, FrameLength(byte)), st.pos,
        parse(cls, Take(st.src, FrameLength(byte)), ts,
              [st EXCEPT !.src = Drop(st.src, FrameLength(byte)),
                         !.pos = st.pos + Len(raw2) + Len(Take(st.src, FrameLength(byte)))]))

\* A plausible slip: a timestamp derived for every record, flag or not
Record__parse_tocks_always(cls, name, code, raw1, byte, st) ==
    IF ~FrameTimestamped(byte)
    THEN Record__parse_data(cls, name, code, raw1, byte, TsOf(st.ts_base, st.tocks), st)
    ELSE IF Len(st.src) < 2 THEN ParseError(name, raw1, st)
    ELSE Record__parse_data(cls, name, code, raw1 \o Take(st.src, 2), byte,
             TsOf(st.ts_base, st.tocks + U16(st.src[1], st.src[2])),
             [st EXCEPT !.src = Drop(st.src, 2),
                        !.tocks = st.tocks + U16(st.src[1], st.src[2])])

\* Record._parse, the tick delta of a timestamped record: added to
\* Record._tocks, and the record's timestamp derived from the sum.
Record__parse_tocks(cls, name, code, raw1, byte, st) ==
    IF ~FrameTimestamped(byte) THEN Record__parse_data(cls, name, code, raw1, byte, NoTs, st)
    ELSE IF Len(st.src) < 2 THEN ParseError(name, raw1, st)
    ELSE Record__parse_data(cls, name, code, raw1 \o Take(st.src, 2), byte,
             TsOf(st.ts_base, st.tocks + U16(st.src[1], st.src[2])),
             [st EXCEPT !.src = Drop(st.src, 2),
                        !.tocks = st.tocks + U16(st.src[1], st.src[2])])

\* Record._parse: length/flags byte, optional tick delta, payload, decoder.
\* raw0 holds the type byte; st.src is the cursor after the type byte.
Record__parse(cls, name, code, raw0, st) ==
    IF st.src = << >> THEN ParseError(name, raw0, st)
    ELSE Record__parse_tocks(cls, name, code, Append(raw0, Head(st.src)), Head(st.src),
                             [st EXCEPT !.src = Tail(st.src)])

\* The number of leading ERASED_BYTE bytes of s (the pop loop of
\* UnusedRecord._parse stops at the first other byte)
ErasedRun(s) ==
    (CHOOSE i \in 1..(Len(s) + 1) :
        /\ i = Len(s) + 1 \/ s[i] # ERASED_BYTE
        /\ \A j \in 1..(i - 1) : s[j] = ERASED_BYTE) - 1

\* A plausible slip: every consumed byte put back, the type byte included
PushBack_all(raw, s) == raw \o s

\* What UnusedRecord._parse puts back on the cursor when the run is not
\* sector padding: the consumed bytes minus the type byte.
PushBack(raw, s) == Drop(raw, 1) \o s

\* A plausible slip: the run counted into Record._pos before the lost record
\* is framed
UnusedRecord__parse_run_counted(name, code, raw1, s1, n, st) ==
    IF n = Len(st.src)
    THEN ParseError(name, raw1, [st EXCEPT !.src = << >>])
    ELSE IF (st.pos + Len(raw1)) % SECTOR_USABLE # 0
    THEN Record__parse("Unused", <<"LostRecord">>, code, Take(raw1, 1),
                       [st EXCEPT !.src = PushBack(raw1, s1), !.pos = st.pos + Len(raw1)])
    ELSE [ok |-> TRUE,
          st |-> [st EXCEPT !.src = s1, !.pos = st.pos + Len(raw1)],
          record |-> [type |-> ERASED_BYTE, name |-> name, len |-> Len(raw1),
                      timestamped |-> FALSE, data |-> << >>, raw |-> raw1,
                      pos |-> st.pos, ts |-> NoTs, tstext |-> << >>, v |-> EmptyV]]

\* UnusedRecord._parse after the pop loop has consumed n erased bytes:
\* raw1 is the type byte and the run, s1 the cursor behind the run.
UnusedRecord__parse_run(name, code, raw1, s1, n, st) ==
    IF n = Len(st.src)
    THEN ParseError(name, raw1, [st EXCEPT !.src = << >>])
    ELSE IF (st.pos + Len(raw1)) % SECTOR_USABLE # 0
    THEN Record__parse("Unused", <<"LostRecord">>, code, Take(raw1, 1),
                       [st EXCEPT !.src = PushBack(raw1, s1)])
    ELSE [ok |-> TRUE,
          st |-> [st EXCEPT !.src = s1, !.pos = st.pos + Len(raw1)],
          record |-> [type |-> ERASED_BYTE, name |-> name, len |-> Len(raw1),
                      timestamped |-> FALSE, data |-> << >>, raw |-> raw1,
                      pos |-> st.pos, ts |-> NoTs, tstext |-> << >>, v |-> EmptyV]]

\* A plausible slip: the byte that ended the run not put back on the cursor
UnusedRecord__parse_noinsert(name, code, raw0, st) ==
    UnusedRecord__parse_run(name, code, raw0 \o Take(st.src, ErasedRun(st.src)),
                            Drop(st.src, ErasedRun(st.src) + 1), ErasedRun(st.src), st)

\* A plausible slip: the pop loop reading the run without removing it from
\* the cursor, so the push-back doubles it
UnusedRecord__parse_peek(name, code, raw0, st) ==
    UnusedRecord__parse_run(name, code, raw0 \o Take(st.src, ErasedRun(st.src)),
                            st.src, ErasedRun(st.src), st)

\* UnusedRecord._parse
UnusedRecord__parse(name, code, raw0, st) ==
    UnusedRecord__parse_run(name, code, raw0 \o Take(st.src, ErasedRun(st.src)),
                            Drop(st.src, ErasedRun(st.src)), ErasedRun(st.src), st)

\* A plausible slip: UnusedRecord.__init__ without the restore of Record._rec
Record__init_done_norestore(cls, old_rec, r) ==
    IF ~r.ok THEN [r EXCEPT !.st.rec = <<r.err>>]
    ELSE [r EXCEPT !.st.rec = <<r.record>>]

\* Record.__init__ once _parse has returned r: the new record is Record._rec,
\* except that UnusedRecord.__init__ puts the old Record._rec back.
Record__init_done(cls, old_rec, r) ==
    IF ~r.ok THEN [r EXCEPT !.st.rec = <<r.err>>]
    ELSE IF cls = "Unused" THEN [r EXCEPT !.st.rec = old_rec]
    ELSE [r EXCEPT !.st.rec = <<r.record>>]

\* Record.__init__ (and UnusedRecord.__init__ around it): the old Record._rec
\* becomes Record._prev_rec, then _parse runs.
Record__init(cls, code, st) ==
    Record__init_done(cls, st.rec,
        IF cls = "Unused"
        THEN UnusedRecord__parse(NameOf(cls, code), code, <<code>>, [st EXCEPT !.prev_rec = st.rec])
        ELSE Record__parse(cls, NameOf(cls, code), code, <<code>>, [st EXCEPT !.prev_rec = st.rec]))

\* The result of LogParser.get_record for the result r of the constructor
get_record_result(r) ==
    IF r.ok THEN [outcome |-> "rec", st |-> r.st, record |-> r.record]
    ELSE [outcome |-> IF r.stopped THEN "brk" ELSE "err", st |-> r.st, err |-> r.err]

\* LogParser.get_record: "eof" is OutOfData raised on the empty cursor
get_record(st) ==
    IF st.src = << >> THEN [outcome |-> "eof", st |-> st]
    ELSE get_record_result(
             Record__init(get_class(Head(st.src)), Head(st.src), [st EXCEPT !.src = Tail(st.src)]))

----------------------------------------------------------------------------
(* Input buffers *)

MaxFrameRecs == 3

MaxTimeRecs == 3

MaxStepRecs == 3

MaxPadLead == 1

MaxPadTail == 2

MaxBeepRecs == 2

MaxUnknownRecs == 2

MaxHeaderSegs == 4

MaxRunRecs == 2

MaxZapRecs == 2

MaxTruncLead == 2

MaxDeltaRecs == 3

MaxTzRecs == 3

MaxShortRecs == 2

MaxRateRecs == 2

Erased(n) == [i \in 1..n |-> ERASED_BYTE]

\* The bytes of a named segment; buf is the buffer built before it.  "PAD"
\* is erased flash up to the next sector boundary, "PAD1" stops one byte
\* short of it.
SegBytes(name, buf) ==
    CASE name = "R9"    -> <<9, 0>>
      [] name = "R9T"   -> <<9, 128, 33, 0>>
      [] name = "R9W"   -> <<9, 128, 255, 255>>
      [] name = "U64"   -> <<64, 1, 9>>
      [] name = "HDR"   -> <<66, 0>>
      [] name = "R9L"   -> <<9, 6, 0, 0, 0, 0, 0, 0>>
      [] name = "BAD"   -> <<7, 1, 0>>
      [] name = "TS"    -> <<1, 5, 64, 66, 15, 0, 4>>
      [] name = "TST"   -> <<1, 133, 1, 0, 32, 161, 7, 0, 252>>
      [] name = "TSN"   -> <<1, 4, 64, 66, 15, 0>>
      [] name = "TD"    -> <<7, 132, 64, 0, 255, 255, 255, 255>>
      [] name = "TDP"   -> <<7, 4, 2, 0, 0, 0>>
      [] name = "TDN"   -> <<7, 4, 255, 255, 255, 255>>
      [] name = "BT"    -> <<12, 137, 64, 0, 29, 0, 0, 0, 0, 0, 0, 0, 4>>
      [] name = "BTM"   -> <<12, 9, 29, 0, 0, 0, 0, 0, 0, 0, 252>>
      [] name = "BTX"   -> <<12, 9, 30, 0, 0, 0, 0, 0, 0, 0, 8>>
      [] name = "BTS"   -> <<12, 1, 29>>
      [] name = "CN8"   -> <<5, 8, 1, 2, 3, 4, 5, 6, 232, 3>>
      [] name = "CN6"   -> <<5, 6, 1, 2, 3, 4, 5, 6>>
      [] name = "CN3"   -> <<5, 3, 1, 2, 3>>
      [] name = "RB4"   -> <<2, 4, 4, 1, 2, 3>>
      [] name = "RB3"   -> <<2, 131, 10, 0, 65, 1, 2>>
      [] name = "RB1"   -> <<2, 1, 128>>
      [] name = "RB0"   -> <<2, 0>>
      [] name = "AL4T"  -> <<15, 132, 64, 0, 5, 0, 7, 0>>
      [] name = "AL2T"  -> <<15, 130, 128, 2, 2, 0>>
      [] name = "AL2"   -> <<15, 2, 5, 0>>
      [] name = "AL1"   -> <<15, 1, 5>>
      [] name = "AT8"   -> <<16, 8, 1, 2, 131, 4, 5, 6, 7, 0>>
      [] name = "AT6"   -> <<16, 6, 1, 2, 3, 4, 5, 6>>
      [] name = "AT3"   -> <<16, 3, 1, 2, 3>>
      [] name = "TP2"   -> <<40, 2, 253, 255>>
      [] name = "TP1"   -> <<40, 1, 252>>
      [] name = "FL4"   -> <<31, 4, 3, 0, 0, 0>>
      [] name = "FL2"   -> <<31, 2, 1, 2>>
      [] name = "UF4"   -> <<38, 4, 1, 0, 0, 0>>
      [] name = "UF0"   -> <<38, 0>>
      [] name = "HF4"   -> <<39, 4, 2, 0, 0, 0>>
      [] name = "HF5"   -> <<39, 5, 1, 2, 3, 4, 5>>
      [] name = "CR12"  -> <<36, 12, 1, 0, 0, 0, 2, 0, 0, 0, 3, 0, 0, 0>>
      [] name = "CR4"   -> <<36, 4, 1, 2, 3, 4>>
      [] name = "OT1"   -> <<37, 1, 192>>
      [] name = "OT2"   -> <<37, 2, 192, 1>>
      [] name = "EN"    -> <<30, 6, 1, 0, 2, 0, 3, 0>>
      [] name = "ENT"   -> <<30, 134, 64, 0, 1, 0, 2, 0, 3, 0>>
      [] name = "ST"    -> <<29, 3, 5, 0, 7>>
      [] name = "STT"   -> <<29, 131, 64, 0, 5, 0, 7>>
      [] name = "STP"   -> <<29, 3, 0, 0, param>>
      [] name = "STQ"   -> <<29, 3, 1, 0, param>>
      [] name = "STH"   -> <<29, 131, 64, 0, 255, 255, param>>
      [] name = "LOST"  -> <<255, 1, 7>>
      [] name = "FF1"   -> <<255>>
      [] name = "P17"   -> <<1, 7>>
      [] name = "BEEP"  -> <<27, 3, 1, 20, param>>
      [] name = "BEEPT" -> <<27, 131, 8, 0, 2, 30, param>>
      [] name = "BEEPS" -> <<27, 1, 5>>
      [] name = "UNK"   -> <<param, 0>>
      [] name = "UNK2"  -> <<param, 2, 255, 0>>
      [] name = "UNKT"  -> <<param, 129, 5, 0, 9>>
      [] name = "UNKF"  -> <<param, 127>> \o [i \in 1..127 |-> (7 * i + param) % 256]
      [] name = "H1"    -> <<66, 128>>
      [] name = "Z4"    -> <<0, 0, 0, 0>>
      [] name = "N4"    -> <<9, 0, 0, 0>>
      [] name = "L4"    -> <<255, 159, 0, 0>>
      [] name = "G4"    -> <<0, 160, 0, 0>>
      [] name = "X4"    -> <<0, 0, 0, 128>>
      [] name = "ZAP0"  -> <<4, 0>>
      [] name = "ZAP1"  -> <<4, 1, 2>>
      [] name = "ZAP2"  -> <<4, 2, 0, 0>>
      [] name = "ZAP6"  -> <<4, 6, 16, 1, 2, 3, 4, 5>>
      [] name = "ZAP8T" -> <<4, 136, 64, 0, 1, 2, 3, 4, 5, 6, 7, 8>>
      [] name = "ZAP9"  -> <<4, 9, 80, 10, 20, 30, 40, 50, 60, 70, 80>>
      [] name = "T9"    -> <<9>>
      [] name = "T9F"   -> <<9, 128>>
      [] name = "T9D"   -> <<9, 128, 1>>
      [] name = "S9"    -> <<9, 3, 1>>
      [] name = "S9T"   -> <<9, 130, 7, 0>>
      [] name = "SEN"   -> <<30, 6, 1, 0>>
      [] name = "SUNK"  -> <<64, 127, 1, 2, 3>>
      [] name = "SBEEP" -> <<27, 3, 1, 20>>
      [] name = "PAD"   -> Erased(SECTOR_USABLE - (Len(buf) % SECTOR_USABLE))
      [] name = "PAD1"  -> Erased(SECTOR_USABLE - 1 - (Len(buf) % SECTOR_USABLE))

RECURSIVE BufferFrom(_, _)
BufferFrom(names, buf) ==
    IF names = << >> THEN buf
    ELSE BufferFrom(Tail(names), buf \o SegBytes(Head(names), buf))

\* The byte buffer named by a sequence of segment names
Buffer(names) == BufferFrom(names, << >>)

SeqsUpTo(S, n) == UNION {[1..k -> S] : k \in 0..n}

FrameInputs == SeqsUpTo({"R9", "R9T", "U64", "HDR", "R9L", "BAD", "EN", "ST"}, MaxFrameRecs)

TimeInputs ==
    SeqsUpTo({"R9T", "R9W", "TS", "TST", "TSN", "TD", "TDP", "BT", "BTM", "BAD", "ENT", "STT",
              "ST"}, MaxTimeRecs)

StepInputs == SeqsUpTo({"EN", "ENT", "ST", "STT", "R9T", "LOST", "PAD"}, MaxStepRecs)

PadInputs ==
    {lead \o <<p>> \o tail :
        lead \in SeqsUpTo({"R9", "R9T"}, MaxPadLead),
        p \in {"PAD", "PAD1", "FF1", "LOST"},
        tail \in SeqsUpTo({"R9", "P17", "FF1"}, MaxPadTail)}

\* Time-delta records with a negative delta, with and without a tick delta
DeltaInputs == SeqsUpTo({"R9T", "R9W", "TS", "TD", "TDN", "TDP"}, MaxDeltaRecs)

\* Time syncs and Bluetooth records with and without a timezone offset
TzInputs == SeqsUpTo({"TS", "TSN", "BT", "BTM", "BTX", "BTS", "R9T", "TD"}, MaxTzRecs)

\* Records with their full layout and with the payload their decoder treats
\* in a branch of its own
ShortInputs ==
    SeqsUpTo({"CN8", "CN6", "CN3", "RB4", "RB3", "RB1", "RB0", "AL4T", "AL2T", "AL2", "AL1",
              "AT8", "AT6", "AT3", "TP2", "TP1", "FL4", "FL2", "UF4", "UF0", "HF4", "HF5",
              "CR12", "CR4", "OT1", "OT2"}, MaxShortRecs)

\* Step counts of count 0, 1 and 65535 whose rate byte is the parameter
RateInputs == SeqsUpTo({"STP", "STQ", "STH"}, MaxRateRecs)

BeepInputs == SeqsUpTo({"BEEP", "BEEPT", "BEEPS"}, MaxBeepRecs)

RunInputs == SeqsUpTo({"R9T", "TS", "ENT", "ST"}, MaxRunRecs)

OtherRunInputs == SeqsUpTo({"R9T", "BT"}, MaxRunRecs)

ZapInputs ==
    SeqsUpTo({"ZAP0", "ZAP1", "ZAP2", "ZAP6", "ZAP8T", "ZAP9", "R9T"}, MaxZapRecs)

\* Buffers that end inside a record: in its header or in its payload
TruncInputs ==
    {lead \o <<last>> :
        lead \in SeqsUpTo({"R9", "R9T", "EN"}, MaxTruncLead),
        last \in {"T9", "T9F", "T9D", "S9", "S9T", "SEN", "SUNK", "SBEEP", "R9L"}}

HeaderInputs ==
    SeqsUpTo({"HDR", "H1", "Z4", "N4", "L4", "G4", "X4", "R9"}, MaxHeaderSegs)

UnknownInputs == SeqsUpTo({"UNK", "UNK2", "UNKT", "UNKF"}, MaxUnknownRecs)

\* The rtype values of the Record subclasses, and the type codes left over
Catalog == (0..31) \cup {34} \cup (36..50) \cup {ERASED_BYTE}

Uncatalogued == (0..255) \ Catalog

----------------------------------------------------------------------------
(* Stream decoder and consumer *)

\* Record._reset together with the cursor LogParser.parse builds
ResetState(cursor) ==
    [src |-> cursor, ts_base |-> Epoch1999, tocks |-> 0, tz_offset |-> 0,
     tz_known |-> FALSE, pos |-> 0, prev_rec |-> << >>, rec |-> << >>]

\* LogParser.parse, the transfer-header test: the first 10 bytes are dropped
\* when they look like a transfer header.
StripHeader(data) ==
    IF /\ Len(data) >= 10
       /\ data[1] = HEADER_MAGIC
       /\ data[2] = 0
       /\ U32NonZero(data[3], data[4], data[5], data[6])
       /\ U32Below(data[7], data[8], data[9], data[10], HEADER_LIMIT)
    THEN Drop(data, 10)
    ELSE data

\* The parser state the next pull works on: the first pull of the generator
\* runs the prologue of LogParser.parse (reset, header strip, cursor).
Cur ==
    IF status = "new" THEN ResetState(StripHeader(Buffer(input)))
    ELSE [src |-> src, ts_base |-> ts_base, tocks |-> tocks, tz_offset |-> tz_offset,
          tz_known |-> tz_known, pos |-> pos, prev_rec |-> prev_rec, rec |-> rec]

Store(st) ==
    /\ src' = st.src
    /\ ts_base' = st.ts_base
    /\ tocks' = st.tocks
    /\ tz_offset' = st.tz_offset
    /\ tz_known' = st.tz_known
    /\ pos' = st.pos
    /\ prev_rec' = st.prev_rec
    /\ rec' = st.rec

\* No second decode run
NoRun == [input |-> << >>, status |-> "none", src |-> << >>, out |-> << >>, err |-> << >>]

\* A second decode run that has called LogParser().parse(data) on the buffer
\* named by names and not pulled yet
NewRun(names) == [input |-> names, status |-> "new", src |-> << >>, out |-> << >>, err |-> << >>]

\* A single decode run whose input has no parametrised segment
OneRun == param = 0 /\ other = NoRun

\* The generator's position after a pull: a record, the end of data, a
\* ParseError, or a decoder that stopped in breakpoint().  What breakpoint()
\* does is the environment's choice (sys.breakpointhook, PYTHONBREAKPOINT):
\* the debugger prompt waits for the terminal, or the call returns at once
\* and the decoder's exception surfaces as a ParseError.
PullStatus(outcome) ==
    CASE outcome = "rec" -> {"running"}
      [] outcome = "eof" -> {"done"}
      [] outcome = "err" -> {"error"}
      [] outcome = "brk" -> {"suspended", "error"}

Init0 ==
    /\ status = "new"
    /\ src = << >>
    /\ ts_base = Epoch1999
    /\ tocks = 0
    /\ tz_offset = 0
    /\ tz_known = FALSE
    /\ pos = 0
    /\ prev_rec = << >>
    /\ rec = << >>
    /\ out = << >>
    /\ err = << >>
    /\ shown = << >>

\* A plausible slip: the loop of LogParser.parse swallowing the ParseError
\* and going on with the next record
Pull_skip ==
    /\ status \in {"new", "running"}
    /\ \E r \in {get_record(Cur)} :
          /\ Store(r.st)
          /\ status' = IF r.outcome = "eof" THEN "done" ELSE "running"
          /\ out' = IF r.outcome = "rec" THEN Append(out, r.record) ELSE out
          /\ err' = IF r.outcome \in {"err", "brk"} THEN <<r.err>> ELSE err
    /\ UNCHANGED <<input, param, shown, other>>

\* The consumer pulls from the generator of LogParser.parse: one pass of its
\* loop.  A record is yielded; OutOfData on the empty cursor ends the
\* generator; a ParseError is re-raised to the consumer.
Pull ==
    /\ status \in {"new", "running"}
    /\ \E r \in {get_record(Cur)} :
          /\ Store(r.st)
          /\ status' \in PullStatus(r.outcome)
          /\ out' = IF r.outcome = "rec" THEN Append(out, r.record) ELSE out
          /\ err' = IF status' = "error" THEN <<r.err>> ELSE err
    /\ UNCHANGED <<input, param, shown, other>>

\* The debugger prompt opened by breakpoint() gets its input from the
\* terminal: the decoder goes on, the names its handler left unbound fail in
\* extract(), and Record.__init__ raises the ParseError of the record.
Resume ==
    /\ status = "suspended"
    /\ status' = "error"
    /\ err' = rec
    /\ UNCHANGED <<input, param, src, ts_base, tocks, tz_offset, tz_known, pos,
                   prev_rec, rec, out, shown, other>>

\* The parser state a pull of the second run works on: its own cursor and
\* the state kept on the Record class.
CurOther ==
    IF other.status = "new" THEN ResetState(StripHeader(Buffer(other.input)))
    ELSE [src |-> other.src, ts_base |-> ts_base, tocks |-> tocks, tz_offset |-> tz_offset,
          tz_known |-> tz_known, pos |-> pos, prev_rec |-> prev_rec, rec |-> rec]

\* What a pull leaves on the Record class
StoreClass(st) ==
    /\ ts_base' = st.ts_base
    /\ tocks' = st.tocks
    /\ tz_offset' = st.tz_offset
    /\ tz_known' = st.tz_known
    /\ pos' = st.pos
    /\ prev_rec' = st.prev_rec
    /\ rec' = st.rec

\* The consumer of the second run pulls from its generator.
PullOther ==
    /\ other.status \in {"new", "running"}
    /\ \E r \in {get_record(CurOther)} :
          /\ StoreClass(r.st)
          /\ \E s \in PullStatus(r.outcome) :
                other' = [input |-> other.input,
                          status |-> s,
                          src |-> r.st.src,
                          out |-> IF r.outcome = "rec" THEN Append(other.out, r.record)
                                  ELSE other.out,
                          err |-> IF s = "error" THEN <<r.err>> ELSE other.err]
    /\ UNCHANGED <<input, param, status, src, out, err, shown>>

\* Record.text_header: the marker column of str(record)
Marker(known) == IF known THEN " " ELSE "*"

\* The consumer renders one of the records it holds.
Render ==
    /\ \E i \in 1..Len(out) : shown' = <<i, Marker(tz_known)>>
    /\ UNCHANGED <<input, param, status, src, ts_base, tocks, tz_offset, tz_known, pos,
                   prev_rec, rec, out, err, other>>

Next == Pull \/ Render

\* A consumer that only pulls
NextPull == Pull

Init == Init0 /\ OneRun /\ input \in FrameInputs

Spec == Init /\ [][Next]_vars

InitTime == Init0 /\ OneRun /\ input \in TimeInputs

SpecTime == InitTime /\ [][Next]_vars

InitSteps == Init0 /\ OneRun /\ input \in StepInputs

SpecSteps == InitSteps /\ [][NextPull]_vars

InitPad == Init0 /\ OneRun /\ input \in PadInputs

SpecPad == InitPad /\ [][NextPull]_vars

\* Beep records whose duration byte runs over every byte value
InitBeep == Init0 /\ other = NoRun /\ param \in 0..255 /\ input \in BeepInputs

SpecBeep == InitBeep /\ [][NextPull]_vars

\* Records of one type code outside the catalog, for every such code
InitUnknown == Init0 /\ other = NoRun /\ param \in Uncatalogued /\ input \in UnknownInputs

SpecUnknown == InitUnknown /\ [][NextPull]_vars

\* Buffers that do or do not begin with a transfer header
InitHeader == Init0 /\ OneRun /\ input \in HeaderInputs

SpecHeader == InitHeader /\ [][NextPull]_vars

\* Two decode runs of one process, their pulls interleaved in any order
NextRuns == Pull \/ PullOther

InitRuns ==
    /\ Init0
    /\ param = 0
    /\ input \in RunInputs
    /\ other \in {NewRun(names) : names \in OtherRunInputs}

SpecRuns == InitRuns /\ [][NextRuns]_vars

\* The whole loop of LogParser.parse from the state st on, with nothing
\* else running: the records yielded after acc and how the loop ends.
RECURSIVE RunFrom(_, _)
RunStep(r, acc) ==
    IF r.outcome = "rec" THEN RunFrom(r.st, Append(acc, r.record))
    ELSE [out |-> acc, end |-> r.outcome]

RunFrom(st, acc) == RunStep(get_record(st), acc)

\* list(LogParser().parse(data)) for the buffer named by names
RunAlone(names) == RunFrom(ResetState(StripHeader(Buffer(names))), << >>)

\* Zap records of every payload length class, with a terminal that may
\* answer the debugger prompt
NextZap == Pull \/ Resume

InitZap == Init0 /\ OneRun /\ input \in ZapInputs

SpecZap == InitZap /\ [][NextZap]_vars

InitDelta == Init0 /\ OneRun /\ input \in DeltaInputs

SpecDelta == InitDelta /\ [][NextPull]_vars

InitTz == Init0 /\ OneRun /\ input \in TzInputs

SpecTz == InitTz /\ [][NextPull]_vars

InitShort == Init0 /\ OneRun /\ input \in ShortInputs

SpecShort == InitShort /\ [][NextPull]_vars

\* Step-count records whose rate byte runs over every byte value
InitRate == Init0 /\ other = NoRun /\ param \in 0..255 /\ input \in RateInputs

SpecRate == InitRate /\ [][NextPull]_vars

InitTrunc == Init0 /\ OneRun /\ input \in TruncInputs

SpecTrunc == InitTrunc /\ [][NextPull]_vars

\* No input of the model reaches a catalog entry the model does not decode.
CatalogCovered ==
    /\ \A i \in 1..Len(out) : out[i].name # <<"Other">>
    /\ err # << >> => err[1].name # <<"Other">>

----------------------------------------------------------------------------
(* Claims *)

\* The length of the complete record at the head of buf
RecLen(buf) == 2 + (IF buf[2] >= 128 THEN 2 ELSE 0) + (buf[2] % 128)

\* The framing grammar of a validly framed buffer: buf is a concatenation of
\* complete records whose type byte is not the erased byte.
RECURSIVE Framed(_)
Framed(buf) ==
    \/ buf = << >>
    \/ /\ Len(buf) >= 2
       /\ buf[1] # 255
       /\ Len(buf) >= RecLen(buf)
       /\ Framed(SubSeq(buf, RecLen(buf) + 1, Len(buf)))

\* The raw records of a framed buffer, in order
RECURSIVE Split(_)
Split(buf) ==
    IF buf = << >> THEN << >>
    ELSE <<SubSeq(buf, 1, RecLen(buf))>> \o Split(SubSeq(buf, RecLen(buf) + 1, Len(buf)))

\* The payload of a raw record
PayloadOf(raw) == SubSeq(raw, (IF raw[2] >= 128 THEN 5 ELSE 3), Len(raw))

\* The decoder of record i of recs accepts it (it raises nothing): the
\* mandatory prefix of its kind is present and, for a step count, the borrow
\* from a preceding energy record finds a timestamp and the rate is defined.
DecoderAccepts(recs, i) ==
    LET type == recs[i][1]
        payload == PayloadOf(recs[i])
    IN CASE type \in {1, 7} -> Len(payload) >= 4
         [] type = 12 -> Len(payload) >= 1
         [] type = 29 -> /\ Len(payload) >= 3
                         /\ ~(payload[3] = 255 /\ payload[1] = 0 /\ payload[2] = 0)
                         /\ ~(i > 1 /\ recs[i - 1][1] = 30 /\ recs[i - 1][2] < 128)
         [] OTHER -> TRUE

ValidStream(buf) ==
    /\ Framed(buf)
    /\ \A i \in 1..Len(Split(buf)) : DecoderAccepts(Split(buf), i)

\* The first ten bytes carry the transfer-header signature
HeaderSignature(buf) ==
    /\ Len(buf) >= 10
    /\ buf[1] = 66 /\ buf[2] = 0
    /\ \E k \in 3..6 : buf[k] # 0
    /\ buf[9] = 0 /\ buf[10] = 0 /\ buf[7] + 256 * buf[8] < 40960

RECURSIVE SumRaw(_)
SumRaw(recs) == IF recs = << >> THEN 0 ELSE Len(Head(recs).raw) + SumRaw(Tail(recs))

\* What C1 promises for the buffer buf: no error, the records yielded so far
\* are the first records of buf in order, and at the clean end all N were
\* yielded and their raw lengths add up to the buffer length.
YieldsAllRecords(buf) ==
    LET recs == Split(buf)
    IN /\ status # "error"
       /\ Len(out) <= Len(recs)
       /\ \A i \in 1..Len(out) : out[i].raw = recs[i]
       /\ status = "done" => Len(out) = Len(recs) /\ SumRaw(out) = Len(buf)

\* C1 as stated: every buffer that is a concatenation of N complete, accepted
\* records is decoded into exactly those N records, ending cleanly, with the
\* raw lengths adding up to the buffer length.
C1_AsStated ==
    ValidStream(Buffer(input)) => YieldsAllRecords(Buffer(input))

\* C1 (amended): the same, for buffers that do not begin with the
\* transfer-header signature (such a buffer loses its first ten bytes).
C1_ValidStreamDecoded ==
    (ValidStream(Buffer(input)) /\ ~HeaderSignature(Buffer(input)))
        => YieldsAllRecords(Buffer(input))

C1_Witness ==
    /\ status = "done"
    /\ ValidStream(Buffer(input)) /\ ~HeaderSignature(Buffer(input))
    /\ Len(out) = 3
    /\ \E i \in 1..3 : out[i].timestamped

----------------------------------------------------------------------------
(* Claims about the timestamp and timezone state *)

Last(q) == q[Len(q)]

\* The step is a pull that yielded a record (the last of out')
Yielded == Len(out') = Len(out) + 1

\* The tick delta in the header of a timestamped record
DeltaOf(r) == r.raw[3] + 256 * r.raw[4]

\* What the framer added to the tick counter for record r
FramerTicks(r) == IF r.timestamped THEN DeltaOf(r) ELSE 0

\* The last real record (not padding, not a lost record) of q, as << >> or <<r>>
RECURSIVE LastReal(_)
LastReal(q) ==
    IF q = << >> THEN << >>
    ELSE IF Last(q).type # 255 THEN <<Last(q)>>
    ELSE LastReal(SubSeq(q, 1, Len(q) - 1))

\* Record r, yielded after the records q, is a step count right after an energy record
Borrows(r, q) == r.type = 29 /\ LastReal(q) # << >> /\ LastReal(q)[1].type = 30

\* The fraction of a timestamp in whole milliseconds, truncated
TruncMs(ts) == (ts[2] * 1000) \div 64

\* The timestamp of r is the time base plus the tick counter right after the
\* framer added r's delta, shown with truncated milliseconds.
FramerStamped(r) ==
    /\ r.ts = <<ts_base + ((tocks + DeltaOf(r)) \div 64), (tocks + DeltaOf(r)) % 64>>
    /\ r.tstext = <<r.ts[1], TruncMs(r.ts)>>

\* C2 as stated: every timestamped record carries the time base plus the
\* tick counter after its own delta was added.
C2_AsStated ==
    [][(Yielded /\ Last(out').timestamped) => FramerStamped(Last(out'))]_vars

\* C2 (amended): the framer adds the unwrapped 16-bit delta to the tick
\* counter of every timestamped record; the record's timestamp is the time
\* base plus that counter over 64, truncated to milliseconds when shown,
\* unless the record is a time sync (type 1) or a step count that borrows the
\* timestamp of the energy record before it.
C2_TimestampFromTicks ==
    [][(Yielded /\ Last(out').timestamped) =>
          /\ Last(out').type \notin {1, 7} => tocks' = tocks + DeltaOf(Last(out'))
          /\ (Last(out').type # 1 /\ ~Borrows(Last(out'), out)) => FramerStamped(Last(out'))
      ]_vars

C2_Witness ==
    /\ out # << >>
    /\ Last(out).type = 9 /\ Last(out).timestamped
    /\ tocks > 65535
    /\ Last(out).ts = <<ts_base + (tocks \div 64), tocks % 64>>
    /\ Last(out).tstext[2] * 64 # (tocks % 64) * 1000

\* A record that carries a timezone offset, and the offset in seconds
TzSync(r) == r.type = 1 /\ Len(r.data) >= 5

TzBluetooth(r) == r.type = 12 /\ Len(r.data) >= 9 /\ r.data[1] = 29

OffsetOf(r) ==
    LET b == IF r.type = 1 THEN r.data[5] ELSE r.data[9]
    IN (IF b >= 128 THEN b - 256 ELSE b) * 15 * 60

\* The shift of the time base C3 describes for an offset of n seconds
TzShifted(n) ==
    /\ ts_base' = IF tz_known THEN ts_base + (n - tz_offset) ELSE ts_base + n
    /\ tz_known'
    /\ tz_offset' = n

\* C3 as stated: every record that carries a timezone offset shifts the time
\* base by the offset (first time) or by the change of the offset (later).
C3_AsStated ==
    [][(Yielded /\ (TzSync(Last(out')) \/ TzBluetooth(Last(out'))))
          => TzShifted(OffsetOf(Last(out')))]_vars

\* C3 (amended): a Bluetooth set-time record shifts the time base as stated;
\* a time-sync record with an offset sets the time base to its own UTC value
\* plus the offset, whatever tz_known was; both leave tz_offset at the new
\* offset and tz_known true.
C3_TimezoneShift ==
    [][Yielded =>
          /\ TzBluetooth(Last(out')) => TzShifted(OffsetOf(Last(out')))
          /\ TzSync(Last(out')) =>
                /\ ts_base' = Last(out').data[1] + 256 * Last(out').data[2]
                              + 65536 * Last(out').data[3] + 16777216 * Last(out').data[4]
                              + OffsetOf(Last(out'))
                /\ tz_known'
                /\ tz_offset' = OffsetOf(Last(out'))
      ]_vars

C3_Witness ==
    /\ Len(out) = 3
    /\ TzBluetooth(out[1]) /\ TzBluetooth(out[3])
    /\ OffsetOf(out[1]) = 3600 /\ OffsetOf(out[3]) = -3600
    /\ ts_base = Epoch1999 - 3600
    /\ tz_known /\ tz_offset = -3600

\* C4 as stated: whenever a record changes the time base, the tick counter
\* is 0 right after it.
C4_AsStated == [][ts_base' # ts_base => tocks' = 0]_vars

\* C4 (amended): a time-sync record leaves the tick counter at 0; the only
\* other record that changes the time base is a Bluetooth set-time record,
\* which leaves the tick counter as the framer left it.
C4_TickReset ==
    [][Yielded =>
          /\ Last(out').type = 1 => tocks' = 0
          /\ (ts_base' # ts_base /\ Last(out').type # 1) =>
                /\ TzBluetooth(Last(out'))
                /\ tocks' = tocks + FramerTicks(Last(out'))
      ]_vars

C4_Witness ==
    /\ Len(out) >= 2
    /\ Last(out).type = 1
    /\ out[Len(out) - 1].type = 9 /\ out[Len(out) - 1].timestamped
    /\ tocks = 0
    /\ ts_base # Epoch1999

\* The signed little-endian value in the first four payload bytes
SignedLE4(d) ==
    d[1] + 256 * d[2] + 65536 * d[3] + 16777216 * (IF d[4] >= 128 THEN d[4] - 256 ELSE d[4])

\* C9: a time-delta record keeps the timestamp the framer gave it (none if it
\* is not timestamped), adds 64 ticks per second of its signed delta to the
\* tick counter and reports now as the time base plus the new counter.
C9_TimeDeltaKeepsOwnTime ==
    [][(Yielded /\ Last(out').type = 7) =>
          /\ Last(out').v.delta = SignedLE4(Last(out').data)
          /\ IF Last(out').timestamped THEN FramerStamped(Last(out'))
             ELSE Last(out').ts = NoTs
          /\ tocks' = tocks + FramerTicks(Last(out')) + 64 * Last(out').v.delta
          /\ ts_base' = ts_base
          /\ Last(out').v.now = <<ts_base + (tocks' \div 64), tocks' % 64>>
      ]_vars

C9_Witness ==
    /\ Len(out) >= 2
    /\ out[Len(out) - 1].type = 7 /\ out[Len(out) - 1].timestamped
    /\ out[Len(out) - 1].v.delta < 0
    /\ out[Len(out) - 1].ts # out[Len(out) - 1].v.now
    /\ Last(out).type = 9 /\ Last(out).timestamped
    /\ Last(out).ts = <<ts_base + (tocks \div 64), tocks % 64>>

\* The timestamp of record i was computed while tz_known was false: no record
\* before it carried an offset, and it is not itself a time sync with an
\* offset (which computes its timestamp after learning the offset).
StampedTzUnknown(i) ==
    /\ out[i].ts # NoTs
    /\ \A j \in 1..(i - 1) : ~TzSync(out[j]) /\ ~TzBluetooth(out[j])
    /\ ~TzSync(out[i])

\* C10: whenever the consumer renders a record whose timestamp was computed
\* while tz_known was false, the rendering shows the marker '*'.
C10_MarkerShown ==
    (shown # << >> /\ StampedTzUnknown(shown[1])) => shown[2] = "*"

----------------------------------------------------------------------------
(* Claims about erased runs, borrowed timestamps and failures *)

\* The bytes the decoder works on
Decoded == StripHeader(Buffer(input))

\* The number of erased bytes at the front of s
RunLen(s) ==
    LET stops == {k \in 1..Len(s) : s[k] # 255}
    IN IF stops = {} THEN Len(s) ELSE (CHOOSE k \in stops : \A j \in stops : k <= j) - 1

\* Where the last unit the decoder worked on starts: the failing record, or
\* the last record it yielded.
LastStart ==
    IF status = "error" THEN pos ELSE IF out = << >> THEN 0 ELSE Last(out).pos

\* The decoder has finished on a buffer that ends in a run of erased bytes
\* which starts at a type position and whose end is sector aligned.
TrailingAlignedRun ==
    /\ status \in {"done", "error"}
    /\ LastStart < Len(Decoded)
    /\ \A k \in (LastStart + 1)..Len(Decoded) : Decoded[k] = 255
    /\ Len(Decoded) % (4096 - 16) = 0

\* C5 as stated: a trailing sector-aligned run of erased bytes gives one
\* padding record that covers the run and a clean end, never a failure.
C5_TrailingPadding ==
    TrailingAlignedRun =>
        /\ status = "done"
        /\ Last(out).name = <<"Unused">>
        /\ Last(out).raw = SubSeq(Decoded, LastStart + 1, Len(Decoded))

\* The next record is a misaligned run of erased bytes followed by another byte
LostCase ==
    /\ status \in {"new", "running"}
    /\ RunLen(Cur.src) > 0
    /\ RunLen(Cur.src) < Len(Cur.src)
    /\ (Cur.pos + RunLen(Cur.src)) % (4096 - 16) # 0

\* Generic framing of the cursor s as a record r at position p: type byte,
\* length/flags byte, optional tick delta, payload of up to len bytes.
FramedFrom(r, s, p) ==
    /\ r.type = s[1]
    /\ r.len = s[2] % 128
    /\ r.timestamped = (s[2] >= 128)
    /\ r.pos = p
    /\ r.raw = SubSeq(s, 1, Len(r.raw))
    /\ Len(r.raw) = (IF s[2] >= 128 THEN 4 ELSE 2) + Len(r.data)
    /\ r.data = SubSeq(r.raw, (IF s[2] >= 128 THEN 5 ELSE 3), Len(r.raw))
    /\ Len(r.data) = IF Len(s) - (Len(r.raw) - Len(r.data)) < r.len
                     THEN Len(s) - (Len(r.raw) - Len(r.data)) ELSE r.len
    /\ IF r.timestamped THEN FramerStamped(r) ELSE r.ts = NoTs

\* C6: a misaligned run of erased bytes followed by another byte loses only
\* its first byte as the type; the bytes from there on are framed by the
\* generic path and the record is named LostRecord.
C6_LostRecord ==
    [][(LostCase /\ (out' # out \/ status' # status)) =>
          IF status' = "error"
          THEN out' = out /\ err'[1].name = <<"LostRecord">>
          ELSE /\ Yielded
               /\ Last(out').name = <<"LostRecord">>
               /\ FramedFrom(Last(out'), Cur.src, Cur.pos)
               /\ src' = SubSeq(Cur.src, Len(Last(out').raw) + 1, Len(Cur.src))
               /\ pos' = Cur.pos + Len(Last(out').raw)
      ]_vars

C6_Witness ==
    /\ Len(out) >= 2
    /\ Last(out).name = <<"LostRecord">>
    /\ Last(out).raw[2] = 255
    /\ Last(out).timestamped
    /\ Last(out).pos > 0

\* C7: a step-count record right after an energy record (padding and lost
\* records between them ignored) carries the energy record's timestamp; any
\* other step-count record carries the timestamp the framer gave it.
C7_StepsBorrowTime ==
    [][(Yielded /\ Last(out').type = 29) =>
          IF Borrows(Last(out'), out)
          THEN /\ Last(out').ts = LastReal(out)[1].ts
               /\ Last(out').tstext = LastReal(out)[1].tstext
          ELSE IF Last(out').timestamped THEN FramerStamped(Last(out'))
               ELSE Last(out').ts = NoTs
      ]_vars

C7_Witness ==
    /\ Len(out) = 3
    /\ out[1].type = 30 /\ out[1].ts # NoTs
    /\ out[2].type = 255
    /\ out[3].type = 29 /\ out[3].timestamped
    /\ out[3].ts = out[1].ts
    /\ out[3].ts # <<ts_base + (tocks \div 64), tocks % 64>>

\* The raw bytes of the records q, one after the other
RECURSIVE ConcatRaw(_)
ConcatRaw(q) == IF q = << >> THEN << >> ELSE Head(q).raw \o ConcatRaw(Tail(q))

\* C8: when decoding a record fails, the records before it have been
\* delivered in input order, the failure reaches the consumer, and no record
\* is ever delivered after it.
C8_FailFast ==
    [][/\ (status \in {"new", "running"} /\ get_record(Cur).outcome = "err" /\ shown' = shown)
            => /\ status' = "error"
               /\ out' = out
               /\ err' = <<get_record(Cur).err>>
               /\ ConcatRaw(out) = SubSeq(Decoded, 1, Cur.pos)
               /\ err'[1].raw = SubSeq(Decoded, Cur.pos + 1, Cur.pos + Len(err'[1].raw))
       /\ status = "error" => (status' = "error" /\ out' = out /\ err' = err)
      ]_vars

C8_Witness ==
    /\ status = "error"
    /\ Len(out) = 2
    /\ err # << >>
    /\ shown # << >>

----------------------------------------------------------------------------
(* Claims about record kinds, the transfer header and decode runs *)

\* The (base, step) pair selected by bits 4-5 of a duration byte
DurationScale(k) ==
    CASE k = 0 -> <<0, 10>>
      [] k = 1 -> <<200, 50>>
      [] k = 2 -> <<1000, 100>>
      [] k = 3 -> <<3000, 500>>

\* The duration C11 gives for the byte x
DurationOf(x) ==
    IF x > 62 THEN 500
    ELSE DurationScale((x \div 16) % 4)[1] + (x % 16) * DurationScale((x \div 16) % 4)[2]

NoCatalogEntry == {32, 33, 35} \cup (51..254)

\* C12: a completely framed record of a type code without a catalog entry,
\* whatever its payload and its length, is decoded into a record named
\* Unknown(code) that carries the raw payload and no decoded field; it never
\* causes a decode failure.
C12_UnknownDecodes ==
    /\ \A i \in 1..Len(out) :
          out[i].type \in NoCatalogEntry =>
              /\ out[i].name = <<"Unknown", out[i].type>>
              /\ out[i].v = <<"None">>
              /\ Len(out[i].data) = out[i].len
              /\ out[i].data = SubSeq(out[i].raw, Len(out[i].raw) - out[i].len + 1,
                                      Len(out[i].raw))
    /\ param \in NoCatalogEntry => status # "error"

C12_Witness ==
    /\ status = "done"
    /\ Len(out) = 2
    /\ out[1].type = 33 /\ out[1].len = 127 /\ out[1].data[127] = (7 * 127 + 33) % 256
    /\ out[2].name = <<"Unknown", 33>> /\ out[2].timestamped /\ out[2].len = 1

\* The bytes the decoder has taken off the cursor: the records it yielded
\* and the record it failed on
Consumed == ConcatRaw(out) \o (IF status = "error" THEN err[1].raw ELSE << >>)

\* C13: the first 10 bytes of the buffer are removed exactly when the buffer
\* has at least 10 bytes and they carry the header signature; otherwise
\* framing starts at byte 0 of the unchanged buffer; the first framed byte is
\* at byte_pos 0.
C13_HeaderStripped ==
    status # "new" =>
        /\ Consumed \o src = IF HeaderSignature(Buffer(input))
                             THEN SubSeq(Buffer(input), 11, Len(Buffer(input)))
                             ELSE Buffer(input)
        /\ out # << >> => out[1].pos = 0

C13_Witness ==
    /\ status = "done"
    /\ HeaderSignature(Buffer(input))
    /\ Buffer(input)[7] = 255 /\ Buffer(input)[8] = 159
    /\ Len(out) = 1
    /\ out[1].pos = 0 /\ out[1].raw = <<9, 0>>

C13_WitnessKept ==
    /\ status = "done"
    /\ Len(Buffer(input)) >= 10
    /\ ~HeaderSignature(Buffer(input))
    /\ Buffer(input)[1] = 66 /\ Buffer(input)[2] = 0 /\ Buffer(input)[8] = 160
    /\ out # << >> /\ out[1].type = 66

\* The records q are the first records of the sequence a run yields alone
FirstOf(q, alone) == Len(q) <= Len(alone) /\ q = SubSeq(alone, 1, Len(q))

\* C14: a decode run yields the same records whether it runs alone or with
\* its pulls interleaved with those of another run.
C14_RunsIsolated ==
    /\ FirstOf(out, RunAlone(input).out)
    /\ status = "done" => out = RunAlone(input).out
    /\ other.status # "none" => FirstOf(other.out, RunAlone(other.input).out)

\* C15: every framer step ends by yielding a record, by signalling the end
\* of data or by raising a decode failure, and never waits for external
\* input; this includes zap records with 2 to 8 payload bytes.
C15_NoSuspension == status \in {"new", "running", "done", "error"}

\* The decoder failed on a record whose header the buffer cuts short: only
\* the type byte, or the type and flags bytes of a timestamped record with
\* less than 2 bytes behind them.
EndsInsideHeader ==
    /\ status = "error"
    /\ err[1].name # <<"Unused">>
    /\ \/ Len(err[1].raw) = 1 /\ src = << >>
       \/ Len(err[1].raw) = 2 /\ err[1].raw[2] >= 128 /\ Len(src) < 2

\* C16: a buffer that ends inside a record header ends the stream cleanly,
\* like a normal end of data, and raises no decode failure.
C16_CleanEndInHeader == ~EndsInsideHeader

\* C17: no record is yielded with a payload shorter than the length its
\* header announces (erased padding, which has no header, aside).
C17_NoShortPayload ==
    \A i \in 1..Len(out) :
        out[i].name # <<"Unused">> => Len(out[i].data) = out[i].len

\* C18: after every record the decoder yields, byte_pos is the sum of the
\* raw lengths of the records yielded so far, and byte_pos plus the bytes left
\* on the cursor is the length of the buffer after header stripping.
C18_BytePosAccounts ==
    status \in {"running", "done"} =>
        /\ pos = SumRaw(out)
        /\ pos + Len(src) = Len(Decoded)

C18_Witness ==
    /\ status = "done"
    /\ Len(out) >= 3
    /\ \E i \in 1..Len(out) : out[i].name = <<"LostRecord">> /\ out[i].raw[2] = 255
    /\ \E i \in 1..Len(out) : out[i].type = 9
    /\ pos = Len(Decoded)

\* The next record is a sector-aligned run of erased bytes followed by more data
PaddingCase ==
    /\ status \in {"new", "running"}
    /\ RunLen(Cur.src) > 0
    /\ RunLen(Cur.src) < Len(Cur.src)
    /\ (Cur.pos + RunLen(Cur.src)) % (4096 - 16) = 0

\* C19: a sector-aligned run of n erased bytes followed by more data yields
\* one padding record of length n with no payload and no timestamp, advances
\* byte_pos by n, leaves the time base, the tick counter, the timezone state
\* and the previous record alone, and leaves the byte that ended the run on
\* the cursor.
C19_PaddingRecord ==
    [][(PaddingCase /\ (out' # out \/ status' # status)) =>
          /\ Yielded /\ status' = "running"
          /\ Last(out').name = <<"Unused">>
          /\ Last(out').len = RunLen(Cur.src)
          /\ Last(out').raw = SubSeq(Cur.src, 1, RunLen(Cur.src))
          /\ Last(out').data = << >>
          /\ ~Last(out').timestamped
          /\ Last(out').ts = NoTs /\ Last(out').tstext = << >>
          /\ pos' = Cur.pos + RunLen(Cur.src)
          /\ <<ts_base', tocks', tz_offset', tz_known'>>
                = <<Cur.ts_base, Cur.tocks, Cur.tz_offset, Cur.tz_known>>
          /\ rec' = Cur.rec
          /\ src' = SubSeq(Cur.src, RunLen(Cur.src) + 1, Len(Cur.src))
          /\ src'[1] # 255
      ]_vars

C19_Witness ==
    /\ Len(out) = 2
    /\ out[1].type = 9 /\ out[1].timestamped
    /\ out[2].name = <<"Unused">> /\ out[2].len = (4096 - 16) - 4
    /\ rec = <<out[1]>>
    /\ tocks = 33
    /\ pos = 4096 - 16
    /\ src # << >>

\* Record i is a step count that took the timestamp of the energy record before it
Inherited(i) == out[i].type = 29 /\ Borrows(out[i], SubSeq(out, 1, i - 1))

\* C20 as stated: a record has a timestamp only if its timestamped flag is
\* set or it is a step count that inherited one.
C20_AsStated ==
    \A i \in 1..Len(out) : out[i].ts # NoTs => (out[i].timestamped \/ Inherited(i))

\* C20 (amended): a record has a timestamp only if its timestamped flag is
\* set, or it is a time-sync record (which carries its own time), or it is a
\* step count that inherited one; every other record with a clear flag has none.
C20_TimestampPresence ==
    \A i \in 1..Len(out) :
        out[i].ts # NoTs => (out[i].timestamped \/ out[i].type = 1 \/ Inherited(i))

C20_Witness ==
    /\ Len(out) = 3
    /\ out[1].type = 1 /\ ~out[1].timestamped /\ out[1].ts # NoTs
    /\ out[2].type = 30 /\ out[2].timestamped
    /\ out[3].type = 29 /\ ~out[3].timestamped /\ out[3].ts = out[2].ts

----------------------------------------------------------------------------
(* The cursor only shrinks *)

\* C21: no pull of a record lengthens the cursor, the push-back of the
\* erased-run recovery included; each produced record leaves the cursor
\* strictly shorter than before it (a lost record by at least 2 bytes); and
\* the records produced never outnumber the bytes of the decoded buffer.
C21_CursorShrinks ==
    [][/\ Len(src') <= Len(Cur.src)
       /\ Yielded => Len(src') < Len(Cur.src)
       /\ (Yielded /\ Last(out').name = <<"LostRecord">>) => Len(src') + 2 <= Len(Cur.src)
       /\ Len(out') + Len(src') <= Len(Decoded)
      ]_vars

C21_Witness ==
    /\ status = "done"
    /\ src = << >>
    /\ Len(out) >= 2
    /\ \E i \in 1..Len(out) :
          /\ out[i].name = <<"LostRecord">>
          /\ out[i].raw[2] = ERASED_BYTE
          /\ Len(out[i].raw) < RunLen(Decoded)
    /\ Len(out) < Len(Decoded)

----------------------------------------------------------------------------
(* The tick counter between two settings of the time base *)

\* The step sets the time base: a time-sync record, or any change of ts_base
BaseSet == ts_base' # ts_base \/ (Yielded /\ Last(out').type = 1)

\* The step yields a time-delta record whose delta is negative
NegativeDelta == Yielded /\ Last(out').type = 7 /\ Last(out').v.delta < 0

\* C22 as stated: while the time base is not set again the tick counter
\* never decreases and is never negative.
C22_AsStated ==
    [][~BaseSet => (tocks' >= tocks /\ tocks' >= 0)]_vars

\* C22 (amended): while the time base is not set again, the tick counter
\* decreases only by a time-delta record with a negative delta, which adds
\* 64 ticks per second of that delta and can take the counter below zero;
\* under every other record it does not decrease, and it turns negative
\* under no other record.
C22_TicksMonotoneButDelta ==
    [][~BaseSet =>
          /\ ~NegativeDelta => tocks' >= tocks
          /\ NegativeDelta =>
                tocks' = tocks + FramerTicks(Last(out')) + 64 * Last(out').v.delta
          /\ (tocks' < 0 /\ tocks >= 0) => NegativeDelta
      ]_vars

C22_Witness ==
    /\ Len(out) = 3
    /\ out[1].type = 9 /\ out[1].timestamped
    /\ out[2].type = 7 /\ ~out[2].timestamped /\ out[2].v.delta = -1
    /\ out[3].type = 9 /\ out[3].timestamped
    /\ tocks = 33 - 64 + 33
    /\ ts_base = Epoch1999

----------------------------------------------------------------------------
(* Which records touch the timezone state and the time base *)

\* The step changes tz_offset, tz_known or the time base
TimeStateChanged == <<tz_offset', tz_known', ts_base'>> # <<tz_offset, tz_known, ts_base>>

\* Record r is a time sync, or a Bluetooth record with the set-time handle
SetsTime(r) == r.type = 1 \/ (r.type = 12 /\ Len(r.data) >= 1 /\ r.data[1] = 29)

\* C23: tz_offset, tz_known and the time base change only when a time-sync
\* record or a Bluetooth record whose first payload byte is 29 is produced;
\* every other record, and every failed decode, leaves the three unchanged;
\* tz_known never returns from true to false.
C23_OnlyTimeRecordsSetTime ==
    [][/\ TimeStateChanged => (Yielded /\ SetsTime(Last(out')))
       /\ tz_known => tz_known'
      ]_vars

C23_Witness ==
    /\ Len(out) = 3
    /\ out[1].type = 1 /\ Len(out[1].data) = 5
    /\ out[2].type = 12 /\ out[2].data[1] = 30 /\ Len(out[2].data) = 9
    /\ out[3].type = 12 /\ out[3].data[1] = 29 /\ Len(out[3].data) = 9
    /\ tz_known
    /\ tz_offset = -4 * TZ_UNIT
    /\ ts_base = 1000000 - 4 * TZ_UNIT

----------------------------------------------------------------------------
(* Zap records of 6 and more payload bytes *)

\* The payload of the record at the head of cursor s, as its header announces it
NextPayload(s) ==
    IF s[2] >= 128 THEN SubSeq(s, 5, 4 + (s[2] % 128)) ELSE SubSeq(s, 3, 2 + s[2])

\* The next record is a zap record whose payload of 6 or more bytes is all
\* in the buffer
ZapCase ==
    /\ status \in {"new", "running"}
    /\ Len(Cur.src) >= 2
    /\ Cur.src[1] = 4
    /\ Cur.src[2] % 128 >= 6
    /\ Len(Cur.src) >= (IF Cur.src[2] >= 128 THEN 4 ELSE 2) + (Cur.src[2] % 128)

\* The legacy scaling applies to payload d: fewer than 9 bytes, or version 0
LegacyLayout(d) == Len(d) < 9 \/ (d[1] \div 64) % 4 = 0

\* C24: a zap record with a payload of at least 6 bytes is decoded: with
\* 6 to 8 bytes, or 9 and more bytes of version 0, target = (b0 & 15) * 10,
\* battery = b1 * 4 + 3180 mV, release = b2 * 2 and exit = b3 * 2; with 9 and
\* more bytes of version 1 to 3, target = round(b1 * 300 / 470),
\* release = b2 * 3 and exit = b3 * 3.
C24_ZapDecodes ==
    [][(ZapCase /\ (out' # out \/ status' # status)) =>
          /\ Yielded
          /\ Last(out').type = 4
          /\ Last(out').data = NextPayload(Cur.src)
          /\ IF LegacyLayout(Last(out').data)
             THEN /\ Last(out').v.target = (Last(out').data[1] % 16) * 10
                  /\ Last(out').v.battv = Last(out').data[2] * 4 + 3180
                  /\ Last(out').v.release = Last(out').data[3] * 2
                  /\ Last(out').v.exit = Last(out').data[4] * 2
             ELSE /\ Last(out').v.target = (60 * Last(out').data[2] + 47) \div 94
                  /\ Last(out').v.release = Last(out').data[3] * 3
                  /\ Last(out').v.exit = Last(out').data[4] * 3
      ]_vars

----------------------------------------------------------------------------
(* Payloads that lack the optional or full-length fields *)

\* Payload d of a record of type t takes the decoder's branch for a payload
\* without the optional or full-length fields
ReducedLayout(t, d) ==
    \/ t = 5 /\ Len(d) \in 6..7
    \/ t = 2 /\ Len(d) \in 1..2
    \/ t = 15 /\ Len(d) < 4
    \/ t = 16 /\ Len(d) \in 6..7
    \/ t = 40 /\ Len(d) = 1
    \/ t \in {31, 38, 39} /\ Len(d) # 4
    \/ t = 36 /\ Len(d) # 12
    \/ t = 37 /\ Len(d) # 1

\* The next record is complete in the buffer and its payload takes such a branch
ReducedCase ==
    /\ status \in {"new", "running"}
    /\ Len(Cur.src) >= 2
    /\ Len(Cur.src) >= (IF Cur.src[2] >= 128 THEN 4 ELSE 2) + (Cur.src[2] % 128)
    /\ ReducedLayout(Cur.src[1], NextPayload(Cur.src))

\* C25: a payload that takes the decoder's branch for missing optional or
\* full-length fields (connect without interval, reboot without version,
\* alarm load and alarm trigger without id, 1-byte temperature, flags of a
\* length other than 4, crash of a length other than 12, OTA of a length
\* other than 1) yields a record and no decode failure.
C25_ReducedLayoutDecodes ==
    [][(ReducedCase /\ (out' # out \/ status' # status)) =>
          /\ Yielded /\ status' = "running"
          /\ Last(out').type = Cur.src[1]
          /\ Last(out').data = NextPayload(Cur.src)
      ]_vars

----------------------------------------------------------------------------
(* Step counts after an energy record without timestamp *)

\* The next record is a complete step-count record of 3 or more payload
\* bytes, and the last real record before it is an energy record whose
\* timestamped flag was clear
StepAfterPlainEnergy ==
    /\ status = "running"
    /\ Len(src) >= 2
    /\ src[1] = 29
    /\ src[2] % 128 >= 3
    /\ Len(src) >= (IF src[2] >= 128 THEN 4 ELSE 2) + (src[2] % 128)
    /\ LastReal(out) # << >>
    /\ LastReal(out)[1].type = 30
    /\ ~LastReal(out)[1].timestamped

\* C26: a step-count record that follows an energy record without timestamp
\* is produced, with no inherited timestamp, and the stream goes on.
C26_StepsAfterPlainEnergy ==
    [][(StepAfterPlainEnergy /\ (out' # out \/ status' # status)) =>
          /\ Yielded /\ status' = "running"
          /\ Last(out').type = 29
          /\ ~Last(out').timestamped => Last(out').ts = NoTs
      ]_vars

----------------------------------------------------------------------------
(* Step counts over all counts and rates *)

\* The next record is a complete step-count record of 3 or more payload
\* bytes that has no energy record to take a timestamp from
StepCase ==
    /\ status \in {"new", "running"}
    /\ Len(Cur.src) >= 2
    /\ Cur.src[1] = 29
    /\ Cur.src[2] % 128 >= 3
    /\ Len(Cur.src) >= (IF Cur.src[2] >= 128 THEN 4 ELSE 2) + (Cur.src[2] % 128)
    /\ (LastReal(out) = << >> \/ LastReal(out)[1].type # 30)

\* C27: a step-count record of 3 or more payload bytes is decoded for every
\* count and every rate byte, rate byte 255 with count 0 included, and
\* reports the count and a rate.
C27_StepsDecodes ==
    [][(StepCase /\ (out' # out \/ status' # status)) =>
          /\ Yielded /\ status' = "running"
          /\ Last(out').type = 29
          /\ Last(out').v.count = Last(out').data[1] + 256 * Last(out').data[2]
          /\ Last(out').v.rate # << >>
      ]_vars

----------------------------------------------------------------------------
(* The upper two bits of a duration byte *)

\* C28: decode_duration ignores the upper two bits of its byte: the duration
\* of every beep record is the one decode_duration gives for the low six
\* bits of the duration byte, and it lies in 0..10999.
C28_UpperBitsIgnored ==
    \A i \in 1..Len(out) :
        (out[i].type = 27 /\ Len(out[i].data) >= 3) =>
            /\ out[i].v.duration = decode_duration(out[i].data[3] % 64)
            /\ out[i].v.duration \in 0..10999

====
